---- MODULE Spec2Model ----
(***************************************************************************)
(* Layout engine of endfield-factory-compressor: the iterative bounds      *)
(* controller in its two implementations,                                  *)
(*   - C#  Z3Solver.SolveIterative          (backend/Z3Solver.cs), and     *)
(*   - TS  solveWithIterativeBounds         (shared/solver/optimizer.ts)   *)
(*         driven by SolverSession          (server/src/solver-session.ts) *)
(*         behind the WebSocket handler     (server/src/index.ts).         *)
(* The external solver's verdict on one rectangle is a nondeterministic    *)
(* choice among the verdicts the call can return.                          *)
(***************************************************************************)
EXTENDS Integers, Sequences, FiniteSets, TLC

VARIABLES
    impl,             \* "cs" | "ts": which implementation this behaviour runs
    graph,            \* the ProductionGraph of the request
    config,           \* the SolverConfig of the request
    solveLimit,       \* number of SOLVE requests the client sends
    nextId,           \* next fresh solve id (createSolveId)
    currentSolveId,   \* SolverSession.currentSolveId
    cancelledSolveId, \* SolverSession.cancelledSolveId
    running,          \* SolverSession.running
    solves,           \* per solve: position and locals of the controller
    stream,           \* items sent to the client, in order
    cancelAt,         \* history: attempts emitted when the cancel was received
    layout            \* one attempt in detail: rectangle, solver model, solution

vars == <<impl, graph, config, solveLimit, nextId, currentSolveId,
          cancelledSolveId, running, solves, stream, cancelAt, layout>>

----------------------------------------------------------------------------
(* Bounds of the model *)

MaxIter == 3
MaxSolves == 2
MaxInitialDim == 3

SolveIds == 1..MaxSolves

(* null of currentSolveId / cancelledSolveId *)
NoId == 0

(* history value: no cancel received for the solve *)
NotCancelled == 0 - 1

----------------------------------------------------------------------------
(* Building catalog *)

BuildingTypes == {"filler", "grinder", "molder", "refinery", "crusher"}

BUILDINGS ==
    [t \in BuildingTypes |->
        IF t \in {"filler", "grinder"}
        THEN [width |-> 3, length |-> 6]
        ELSE [width |-> 3, length |-> 3]]

(* optional<number>: <<>> is undefined, <<v>> is v;  a ?? b *)
Coalesce(opt, dflt) == IF opt = <<>> THEN dflt ELSE opt[1]

Max(a, b) == IF a >= b THEN a ELSE b

(* mutant: the square root is rounded down *)
CeilSqrt_Floor(n) == CHOOSE s \in 0..n : s * s <= n /\ (s + 1) * (s + 1) > n

(* Math.ceil(Math.sqrt(n)) for n >= 0 *)
CeilSqrt(n) == CHOOSE s \in 0..n : s * s >= n /\ (s = 0 \/ (s - 1) * (s - 1) < n)

NodeArea(node) == BUILDINGS[node.type].width * BUILDINGS[node.type].length
NodeLength(node) == BUILDINGS[node.type].length
NodeWidth(node) == BUILDINGS[node.type].width
EdgeConveyorArea(edge) == edge.belts * 2

(* graph.nodes.reduce((sum, node) => sum + def.width * def.length, 0) *)
RECURSIVE TotalNodeArea(_, _)
TotalNodeArea(nodes, i) ==
    IF i > Len(nodes) THEN 0 ELSE NodeArea(nodes[i]) + TotalNodeArea(nodes, i + 1)

(* graph.Edges.Sum(e => e.Belts * 2) *)
RECURSIVE TotalConveyorArea(_, _)
TotalConveyorArea(edges, i) ==
    IF i > Len(edges) THEN 0
    ELSE EdgeConveyorArea(edges[i]) + TotalConveyorArea(edges, i + 1)

(* graph.Nodes.Max(n => Buildings[n.Type].Length) *)
RECURSIVE MaxLength(_, _)
MaxLength(nodes, i) ==
    IF i > Len(nodes) THEN 0 ELSE Max(NodeLength(nodes[i]), MaxLength(nodes, i + 1))

(* graph.Nodes.Max(n => Buildings[n.Type].Width) *)
RECURSIVE MaxWidth(_, _)
MaxWidth(nodes, i) ==
    IF i > Len(nodes) THEN 0 ELSE Max(NodeWidth(nodes[i]), MaxWidth(nodes, i + 1))

(* TS estimateInitialBounds *)
estimateInitialBounds(g) ==
    LET side == CeilSqrt(TotalNodeArea(g.nodes, 1))
    IN  [width |-> side, height |-> side]

(* C# EstimateInitialBounds *)
EstimateInitialBounds(g) ==
    IF Len(g.nodes) = 0
    THEN [width |-> 3, height |-> 3]
    ELSE LET totalArea == TotalNodeArea(g.nodes, 1) + TotalConveyorArea(g.edges, 1)
             side == Max(Max(MaxLength(g.nodes, 1), MaxWidth(g.nodes, 1)),
                         CeilSqrt(totalArea))
         IN  [width |-> side, height |-> side]

(* TS resolveInitialBounds; C# SolveIterative lines 615-617 *)
resolveInitialBounds(g, cfg) ==
    LET estimated == IF impl = "cs" THEN EstimateInitialBounds(g)
                                    ELSE estimateInitialBounds(g)
    IN  [width  |-> Coalesce(cfg.initialWidth, estimated.width),
         height |-> Coalesce(cfg.initialHeight, estimated.height)]

(* mutant: the configured step is used as it is, without the floor of 1 *)
expandBounds_RawStep(current, cfg, iteration) ==
    LET step == cfg.expansionStep
    IN  IF cfg.fixedDimensionMode = "width"
        THEN [width |-> current.width, height |-> current.height + step]
        ELSE IF cfg.fixedDimensionMode = "height"
        THEN [width |-> current.width + step, height |-> current.height]
        ELSE IF iteration % 2 = 0
        THEN [width |-> current.width + step, height |-> current.height]
        ELSE [width |-> current.width, height |-> current.height + step]

(* mutant: in mode none the axes alternate with the opposite parity *)
expandBounds_SwappedParity(current, cfg, iteration) ==
    LET step == Max(1, cfg.expansionStep)
    IN  IF cfg.fixedDimensionMode = "width"
        THEN [width |-> current.width, height |-> current.height + step]
        ELSE IF cfg.fixedDimensionMode = "height"
        THEN [width |-> current.width + step, height |-> current.height]
        ELSE IF iteration % 2 = 0
        THEN [width |-> current.width, height |-> current.height + step]
        ELSE [width |-> current.width + step, height |-> current.height]

(* expandBounds / ExpandBounds *)
expandBounds(current, cfg, iteration) ==
    LET step == Max(1, cfg.expansionStep)
    IN  IF cfg.fixedDimensionMode = "width"
        THEN [width |-> current.width, height |-> current.height + step]
        ELSE IF cfg.fixedDimensionMode = "height"
        THEN [width |-> current.width + step, height |-> current.height]
        ELSE IF iteration % 2 = 0
        THEN [width |-> current.width + step, height |-> current.height]
        ELSE [width |-> current.width, height |-> current.height + step]

----------------------------------------------------------------------------
(* Requests: graphs and configs the client can send *)

Node(id, type) == [id |-> id, type |-> type]
Edge(id, from, to, belts) == [id |-> id, from |-> from, to |-> to, belts |-> belts]

EmptyGraph == [nodes |-> <<>>, edges |-> <<>>]
SingleGrinderGraph == [nodes |-> <<Node("g", "grinder")>>, edges |-> <<>>]
TwoCrusherGraph ==
    [nodes |-> <<Node("a", "crusher"), Node("b", "crusher")>>,
     edges |-> <<Edge("e1", "a", "b", 1)>>]

Graphs == {EmptyGraph, SingleGrinderGraph, TwoCrusherGraph}

FixedDimensionModes == {"none", "width", "height"}
ExpansionSteps == {0 - 1, 0, 1, 2}
InitialDims == {<<>>, <<MaxInitialDim>>}
IterationLimits == (0 - 1)..MaxIter

Configs ==
    [initialWidth : InitialDims, initialHeight : InitialDims,
     fixedDimensionMode : FixedDimensionModes,
     expansionStep : ExpansionSteps,
     maxIterations : IterationLimits]

(* the default config of the client, with every iteration limit *)
SessionConfigs ==
    [initialWidth : {<<>>}, initialHeight : {<<>>},
     fixedDimensionMode : {"none"},
     expansionStep : {1},
     maxIterations : 0..MaxIter]

----------------------------------------------------------------------------
(* Values of the controller *)

Attempt(iteration, bounds, status) ==
    [iteration |-> iteration, width |-> bounds.width,
     height |-> bounds.height, status |-> status]

NoSolution ==
    [status |-> "none", bounds |-> [width |-> 0, height |-> 0],
     placements |-> <<>>, conveyors |-> <<>>, attempts |-> <<>>]

(* solution-extractor.ts createUnsatSolution *)
createUnsatSolution(attempts, lastBounds) ==
    [status |-> "unsat", bounds |-> lastBounds,
     placements |-> <<>>, conveyors |-> <<>>, attempts |-> attempts]

(* mutant: the unknown solution reports the next rectangle of the schedule *)
createUnknownSolution_Expanded(attempts, lastBounds) ==
    [status |-> "unknown",
     bounds |-> [width |-> lastBounds.width + 1, height |-> lastBounds.height],
     placements |-> <<>>, conveyors |-> <<>>, attempts |-> attempts]

(* solution-extractor.ts createUnknownSolution *)
createUnknownSolution(attempts, lastBounds) ==
    [status |-> "unknown", bounds |-> lastBounds,
     placements |-> <<>>, conveyors |-> <<>>, attempts |-> attempts]

(* one placement per node of the graph (coordinates are the solver's) *)
PlacementsOf(g) == [i \in 1..Len(g.nodes) |-> g.nodes[i].id]

(* the routed belts of a layout, by the edge they realise *)
ConveyorsOf(g) == [i \in 1..Len(g.edges) |-> g.edges[i].id]

(* solution-extractor.ts extractSatSolution, then optimizer.ts lines 94-98:   *)
(* the attempts are copied before the sat attempt is pushed                *)
extractSatSolution(g, attempts, bounds) ==
    [status |-> "sat", bounds |-> bounds,
     placements |-> PlacementsOf(g), conveyors |-> ConveyorsOf(g),
     attempts |-> attempts]

(* footprint rectangle of a node anchored at (x, y): long side along X *)
Rect(node, x, y) ==
    [x |-> x, y |-> y, w |-> BUILDINGS[node.type].length,
     h |-> BUILDINGS[node.type].width]

(* constraints.ts lines 48-55: the four-way disjunction of two footprints *)
Disjoint(a, b) ==
    \/ a.x + a.w <= b.x
    \/ b.x + b.w <= a.x
    \/ a.y + a.h <= b.y
    \/ b.y + b.h <= a.y

(* constraints.ts lines 28-30 *)
InBounds(r, b) == r.x >= 0 /\ r.y >= 0 /\ r.x + r.w <= b.width /\ r.y + r.h <= b.height

(* buildPlacementConstraints is satisfiable from node i on, the earlier   *)
(* nodes being placed at `placed`; the first node is anchored at (0,0)    *)
RECURSIVE PlacementSat(_, _, _, _)
PlacementSat(g, b, i, placed) ==
    IF i > Len(g.nodes) THEN TRUE
    ELSE \E x \in (IF i = 1 THEN {0} ELSE 0..b.width), y \in (IF i = 1 THEN {0} ELSE 0..b.height) :
            LET r == Rect(g.nodes[i], x, y)
            IN  /\ InBounds(r, b)
                /\ \A j \in 1..Len(placed) : Disjoint(placed[j], r)
                /\ PlacementSat(g, b, i + 1, Append(placed, r))

(* verdicts of one solver.check() followed by routeConveyorsForSolution:  *)
(* "unrouted" is a sat placement whose routing fails, "throw" a rejected  *)
(* promise; "unknown" is the solver giving up                             *)
CheckOutcomes(g, b) ==
    {"unknown", "throw"}
    \cup (IF PlacementSat(g, b, 1, <<>>)
          THEN {"sat"} \cup (IF Len(g.edges) > 0 THEN {"unrouted"} ELSE {})
          ELSE {"unsat"})

(* Z3Solver.cs lines 358-360: a node has at least one anchor position *)
Fits(node, b) ==
    BUILDINGS[node.type].length <= b.width /\ BUILDINGS[node.type].width <= b.height

(* Z3Solver.cs lines 252-263 and 400-438: two machines share no tile and *)
(* no tile edge                                                          *)
Apart(a, b) ==
    /\ Disjoint(a, b)
    /\ Disjoint([a EXCEPT !.x = a.x - 1, !.w = a.w + 2], b)
    /\ Disjoint([a EXCEPT !.y = a.y - 1, !.h = a.h + 2], b)

(* the tile model of TrySolve is satisfiable from node i on: every node   *)
(* that has an anchor position takes one; a node without any is left      *)
(* unconstrained (lines 376-388)                                          *)
RECURSIVE TileModelSat(_, _, _, _)
TileModelSat(g, b, i, placed) ==
    IF i > Len(g.nodes) THEN TRUE
    ELSE IF ~Fits(g.nodes[i], b) THEN TileModelSat(g, b, i + 1, placed)
    ELSE \E x \in 0..b.width, y \in 0..b.height :
            LET r == Rect(g.nodes[i], x, y)
            IN  /\ InBounds(r, b)
                /\ \A j \in 1..Len(placed) : Apart(placed[j], r)
                /\ TileModelSat(g, b, i + 1, Append(placed, r))

(* verdicts of C# TrySolve (lines 485-604) *)
TrySolveOutcomes(g, b) ==
    {"unknown"} \cup (IF TileModelSat(g, b, 1, <<>>) THEN {"sat"} ELSE {"unsat"})

Ids(nodes) == [i \in 1..Len(nodes) |-> nodes[i].id]

(* placements TrySolve can extract (lines 494-520): one per node with a  *)
(* machine tile; a node without an anchor position may have none         *)
TrySolvePlacements(g, b) ==
    {Ids(g.nodes), Ids(SelectSeq(g.nodes, LAMBDA n : Fits(n, b)))}

(* the attempt in detail is not followed in this behaviour *)
NoLayout ==
    [pc |-> "idle", bounds |-> [width |-> 0, height |-> 0], status |-> "none",
     placements |-> <<>>, conveyors |-> <<>>, model |-> {}, tiles |-> <<>>]

IdleSolve ==
    [pc |-> "idle", iteration |-> 0, bounds |-> [width |-> 0, height |-> 0],
     attempts |-> <<>>, status |-> "none", placements |-> <<>>,
     conveyors |-> <<>>, solution |-> NoSolution]

Item(kind, solveId, data) == [kind |-> kind, solveId |-> solveId, data |-> data]

----------------------------------------------------------------------------
(* Initial state: one request (graph, config) per behaviour.  A session    *)
(* that receives a single SOLVE draws its config from Configs; a session  *)
(* that receives up to MaxSolves SOLVE messages (each with a fresh id,     *)
(* possibly while an earlier solve is pending) draws it from               *)
(* SessionConfigs.  The C# iterator serves one call.                       *)

Init ==
    /\ impl \in {"cs", "ts"}
    /\ graph \in Graphs
    /\ \/ /\ config \in Configs
          /\ solveLimit = 1
       \/ /\ impl = "ts"
          /\ config \in SessionConfigs
          /\ solveLimit = MaxSolves
    /\ nextId = 1
    /\ currentSolveId = NoId
    /\ cancelledSolveId = NoId
    /\ running = FALSE
    /\ solves = [s \in SolveIds |-> IdleSolve]
    /\ stream = <<>>
    /\ cancelAt = [s \in SolveIds |-> NotCancelled]
    /\ layout = NoLayout

----------------------------------------------------------------------------
(* SolverSession (TS) *)

(* solver-session.ts lines 78-79 *)
shouldCancel(s) ==
    cancelledSolveId = s \/ (currentSolveId # NoId /\ currentSolveId # s)

(* mutant: the attempt of a sat check is not reported *)
onProgress_SkipSat(strm, s, attempt) ==
    IF currentSolveId = s /\ attempt.status # "sat"
    THEN Append(strm, Item("attempt", s, attempt)) ELSE strm

(* mutant: PROGRESS is sent whichever solve is current *)
onProgress_Always(strm, s, attempt) == Append(strm, Item("attempt", s, attempt))

(* onProgress, lines 73-77: PROGRESS is sent only for the current solve *)
onProgress(strm, s, attempt) ==
    IF currentSolveId = s THEN Append(strm, Item("attempt", s, attempt)) ELSE strm

(* mutant: RESULT is sent only while the session is still marked running *)
Return_IfRunning(s, k, b, atts, strm, solution) ==
    /\ solves' = [solves EXCEPT ![s] =
                    [IdleSolve EXCEPT !.pc = "done", !.iteration = k,
                                      !.bounds = b, !.attempts = atts,
                                      !.status = solution.status,
                                      !.solution = solution]]
    /\ stream' = IF running /\ currentSolveId = s
                 THEN Append(strm, Item("solution", s, solution)) ELSE strm
    /\ running' = IF currentSolveId = s THEN FALSE ELSE running

(* handleSolve after solveWithIterativeBounds returned: lines 82-84 and  *)
(* the finally block, lines 93-100                                       *)
Return(s, k, b, atts, strm, solution) ==
    /\ solves' = [solves EXCEPT ![s] =
                    [IdleSolve EXCEPT !.pc = "done", !.iteration = k,
                                      !.bounds = b, !.attempts = atts,
                                      !.status = solution.status,
                                      !.solution = solution]]
    /\ stream' = IF currentSolveId = s
                 THEN Append(strm, Item("solution", s, solution)) ELSE strm
    /\ running' = IF currentSolveId = s THEN FALSE ELSE running

(* handleSolve's catch, lines 85-92, and the finally block *)
Throw(s, strm) ==
    /\ solves' = [solves EXCEPT ![s].pc = "failed"]
    /\ stream' = IF currentSolveId = s
                 THEN Append(strm, Item("error", s, NoSolution)) ELSE strm
    /\ running' = IF currentSolveId = s THEN FALSE ELSE running

(* mutant: the loop runs one iteration past maxIterations *)
LoopHead_OffByOne(s, k, b, atts, strm) ==
    IF ~(k <= config.maxIterations + 1)
    THEN Return(s, k, b, atts, strm, createUnsatSolution(atts, b))
    ELSE IF shouldCancel(s)
    THEN Return(s, k, b, atts, strm, createUnknownSolution(atts, b))
    ELSE /\ solves' = [solves EXCEPT ![s] =
                         [IdleSolve EXCEPT !.pc = "check", !.iteration = k,
                                           !.bounds = b, !.attempts = atts]]
         /\ stream' = strm
         /\ UNCHANGED running

(* optimizer.ts lines 59-66: the loop head of iteration k, up to the     *)
(* await of solver.check()                                               *)
LoopHead(s, k, b, atts, strm) ==
    IF ~(k <= config.maxIterations)
    THEN Return(s, k, b, atts, strm, createUnsatSolution(atts, b))
    ELSE IF shouldCancel(s)
    THEN Return(s, k, b, atts, strm, createUnknownSolution(atts, b))
    ELSE /\ solves' = [solves EXCEPT ![s] =
                         [IdleSolve EXCEPT !.pc = "check", !.iteration = k,
                                           !.bounds = b, !.attempts = atts]]
         /\ stream' = strm
         /\ UNCHANGED running

(* index.ts ws.on('message') with a SOLVE: handleSolve lines 56-68, up   *)
(* to the await of createContext()                                       *)
HandleSolve ==
    /\ impl = "ts"
    /\ nextId <= solveLimit
    /\ running' = TRUE
    /\ currentSolveId' = nextId
    /\ cancelledSolveId' = NoId
    /\ solves' = [solves EXCEPT ![nextId].pc = "context"]
    /\ nextId' = nextId + 1
    /\ UNCHANGED <<layout, impl, graph, config, solveLimit, stream, cancelAt>>

(* index.ts ws.on('message') with a CANCEL: handleCancel lines 48-53     *)
HandleCancel(id) ==
    /\ impl = "ts"
    /\ IF currentSolveId # NoId /\ id = currentSolveId
       THEN /\ cancelledSolveId' = id
            /\ running' = FALSE
            /\ cancelAt' = IF cancelAt[id] = NotCancelled
                              /\ solves[id].pc \in {"context", "check"}
                           THEN [cancelAt EXCEPT ![id] = Len(solves[id].attempts)]
                           ELSE cancelAt
       ELSE UNCHANGED <<cancelledSolveId, running, cancelAt>>
    /\ UNCHANGED <<layout, impl, graph, config, solveLimit, nextId, currentSolveId,
                   solves, stream>>

(* createContext() resolved: solveWithIterativeBounds lines 55-66 *)
ContextReady(s) ==
    /\ solves[s].pc = "context"
    /\ LoopHead(s, 1, resolveInitialBounds(graph, config), <<>>, stream)
    /\ UNCHANGED <<layout, impl, graph, config, solveLimit, nextId, currentSolveId,
                   cancelledSolveId, cancelAt>>

(* createContext() rejected *)
ContextFailed(s) ==
    /\ solves[s].pc = "context"
    /\ Throw(s, stream)
    /\ UNCHANGED <<layout, impl, graph, config, solveLimit, nextId, currentSolveId,
                   cancelledSolveId, cancelAt>>

(* solver.check() settled with `outcome`: optimizer.ts lines 68-135 and  *)
(* the next loop head                                                    *)
CheckDone(s, outcome) ==
    /\ solves[s].pc = "check"
    /\ outcome \in CheckOutcomes(graph, solves[s].bounds)
    /\ LET k == solves[s].iteration
           b == solves[s].bounds
           atts == solves[s].attempts
       IN  CASE outcome = "sat" ->
                  LET solution == extractSatSolution(graph, atts, b)
                      satAttempt == Attempt(k, b, "sat")
                  IN  Return(s, k, b, Append(atts, satAttempt),
                             onProgress(stream, s, satAttempt), solution)
             [] outcome = "unknown" ->
                  LET attempt == Attempt(k, b, "unknown")
                  IN  Return(s, k, b, Append(atts, attempt),
                             onProgress(stream, s, attempt),
                             createUnknownSolution(Append(atts, attempt), b))
             [] outcome \in {"unsat", "unrouted"} ->
                  LET attempt == Attempt(k, b, "unsat")
                  IN  LoopHead(s, k + 1, expandBounds(b, config, k),
                               Append(atts, attempt),
                               onProgress(stream, s, attempt))
             [] outcome = "throw" -> Throw(s, stream)
    /\ UNCHANGED <<layout, impl, graph, config, solveLimit, nextId, currentSolveId,
                   cancelledSolveId, cancelAt>>

----------------------------------------------------------------------------
(* Z3Solver.SolveIterative (C#): an async iterator, one action per       *)
(* MoveNext up to the next yield                                         *)

(* belts TrySolve can extract: routing is not constrained (lines         *)
(* 480-483), so a satisfying model may hold none                         *)
TrySolveConveyors(g) == {<<>>, ConveyorsOf(g)}

CsSolution(status, b, placements, conveyors, atts) ==
    [status |-> status, bounds |-> b, placements |-> placements,
     conveyors |-> conveyors, attempts |-> atts]

(* lines 619-632 for iteration k, or lines 675-689 once the loop is over *)
CsLoopHead(k, b, atts) ==
    IF k <= config.maxIterations
    THEN \E outcome \in TrySolveOutcomes(graph, b),
            placements \in TrySolvePlacements(graph, b),
            conveyors \in TrySolveConveyors(graph) :
            LET attempt == Attempt(k, b, outcome)
            IN  /\ solves' = [solves EXCEPT ![1] =
                      [IdleSolve EXCEPT !.pc = "yieldAttempt", !.iteration = k,
                          !.bounds = b, !.attempts = Append(atts, attempt),
                          !.status = outcome,
                          !.placements = IF outcome = "sat" THEN placements ELSE <<>>,
                          !.conveyors = IF outcome = "sat" THEN conveyors ELSE <<>>]]
                /\ stream' = Append(stream, Item("attempt", 1, attempt))
    ELSE LET solution == CsSolution("unsat", b, <<>>, <<>>, atts)
         IN  /\ solves' = [solves EXCEPT ![1] =
                   [IdleSolve EXCEPT !.pc = "yieldSolution", !.iteration = k,
                       !.bounds = b, !.attempts = atts, !.status = "unsat",
                       !.solution = solution]]
             /\ stream' = Append(stream, Item("solution", 1, solution))

(* first MoveNext: lines 612-632 *)
CsStart ==
    /\ impl = "cs"
    /\ solves[1].pc = "idle"
    /\ CsLoopHead(1, resolveInitialBounds(graph, config), <<>>)
    /\ nextId' = nextId + 1
    /\ UNCHANGED <<layout, impl, graph, config, solveLimit, currentSolveId,
                   cancelledSolveId, running, cancelAt>>

(* MoveNext after the yield of an attempt: lines 634-673 *)
CsAfterAttempt ==
    /\ impl = "cs"
    /\ solves[1].pc = "yieldAttempt"
    /\ LET cur == solves[1]
       IN  IF cur.status \in {"sat", "unknown"}
           THEN LET solution == CsSolution(cur.status, cur.bounds, cur.placements,
                                           cur.conveyors, cur.attempts)
                IN  /\ solves' = [solves EXCEPT ![1].pc = "yieldSolution",
                                                ![1].solution = solution]
                    /\ stream' = Append(stream, Item("solution", 1, solution))
           ELSE CsLoopHead(cur.iteration + 1,
                           expandBounds(cur.bounds, config, cur.iteration),
                           cur.attempts)
    /\ UNCHANGED <<layout, impl, graph, config, solveLimit, nextId, currentSolveId,
                   cancelledSolveId, running, cancelAt>>

(* MoveNext after the yield of the solution: yield break / end of method *)
CsEnd ==
    /\ impl = "cs"
    /\ solves[1].pc = "yieldSolution"
    /\ solves' = [solves EXCEPT ![1].pc = "done"]
    /\ UNCHANGED <<layout, impl, graph, config, solveLimit, nextId, currentSolveId,
                   cancelledSolveId, running, stream, cancelAt>>

----------------------------------------------------------------------------

Next ==
    \/ HandleSolve
    \/ \E id \in SolveIds : HandleCancel(id)
    \/ \E s \in SolveIds : ContextReady(s)
    \/ \E s \in SolveIds : ContextFailed(s)
    \/ \E s \in SolveIds, outcome \in {"sat", "unrouted", "unsat", "unknown", "throw"} :
          CheckDone(s, outcome)
    \/ CsStart
    \/ CsAfterAttempt
    \/ CsEnd

Spec == Init /\ [][Next]_vars

----------------------------------------------------------------------------
(* One attempt in detail: the solver's model of the placement, the         *)
(* extraction of the placements and the routing of the belts.  Cells are  *)
(* <<x, y>>, y growing downwards.                                         *)

(* solution-extractor.ts lines 42-58 / Z3Solver.cs lines 511-518 *)
PlacedBuilding(node, x, y) ==
    [nodeId |-> node.id, x |-> x, y |-> y,
     width |-> BUILDINGS[node.type].length, height |-> BUILDINGS[node.type].width]

(* buildPlacementConstraints over an assignment m of (x, y) to each node *)
buildPlacementConstraints(g, b, m) ==
    /\ \A i \in 1..Len(g.nodes) :
          InBounds(Rect(g.nodes[i], m[i][1], m[i][2]), b)
    /\ Len(g.nodes) > 0 => m[1] = <<0, 0>>
    /\ \A i, j \in 1..Len(g.nodes) :
          i < j => Disjoint(Rect(g.nodes[i], m[i][1], m[i][2]),
                            Rect(g.nodes[j], m[j][1], m[j][2]))

(* the models solver.check() can return for the placement constraints *)
PlacementModels(g, b) ==
    {m \in [1..Len(g.nodes) -> (0..b.width) \X (0..b.height)] :
        buildPlacementConstraints(g, b, m)}

(* extractSatSolution: one placement per node, in the order of the nodes *)
extractPlacements(g, m) ==
    [i \in 1..Len(g.nodes) |-> PlacedBuilding(g.nodes[i], m[i][1], m[i][2])]

(* conveyor-model.ts STEP, in the order of Object.values *)
STEP == <<[dx |-> 0, dy |-> 0 - 1], [dx |-> 1, dy |-> 0],
          [dx |-> 0, dy |-> 1], [dx |-> 0 - 1, dy |-> 0]>>

direction(from, to) ==
    IF to[1] > from[1] THEN "right"
    ELSE IF to[1] < from[1] THEN "left"
    ELSE IF to[2] > from[2] THEN "down"
    ELSE "up"

isHorizontal(a, b) == a[2] = b[2]

(* mutant: no cell is blocked by a footprint *)
buildBlockedCells_None(placements) == {}

buildBlockedCells(placements) ==
    UNION {(p.x .. (p.x + p.width - 1)) \X (p.y .. (p.y + p.height - 1)) :
              p \in {placements[i] : i \in 1..Len(placements)}}

getOutputPorts(p) == [dx \in 1..p.width |-> <<p.x + dx - 1, p.y + p.height>>]

(* mutant: the input face is the row below the footprint, like the outputs *)
getInputPorts_Below(p) == [dx \in 1..p.width |-> <<p.x + dx - 1, p.y + p.height>>]

getInputPorts(p) == [dx \in 1..p.width |-> <<p.x + dx - 1, p.y - 1>>]

inBounds(cell, b) ==
    cell[1] >= 0 /\ cell[2] >= 0 /\ cell[1] < b.width /\ cell[2] < b.height

(* bfsPath lines 162-176: the neighbours of `current` from the i-th step on *)
RECURSIVE bfsVisit(_, _, _, _)
bfsVisit(env, current, i, st) ==
    IF i > Len(STEP) THEN st
    ELSE LET next == <<current[1] + STEP[i].dx, current[2] + STEP[i].dy>>
             skip == \/ ~inBounds(next, env.bounds)
                     \/ next \in env.blocked
                     \/ next \in st.visited
                     \/ (next \in DOMAIN env.occupied /\ env.occupied[next] = "hv")
         IN  IF skip THEN bfsVisit(env, current, i + 1, st)
             ELSE bfsVisit(env, current, i + 1,
                           [queue |-> Append(st.queue, next),
                            visited |-> st.visited \cup {next},
                            prev |-> (next :> current) @@ st.prev])

(* bfsPath lines 150-158: the path from the start to `key` along prev *)
RECURSIVE bfsTrace(_, _)
bfsTrace(prev, key) ==
    IF key \in DOMAIN prev THEN Append(bfsTrace(prev, prev[key]), key) ELSE <<key>>

(* bfsPath lines 144-176: the while loop; <<>> is null *)
RECURSIVE bfsLoop(_, _)
bfsLoop(env, st) ==
    IF st.queue = <<>> THEN <<>>
    ELSE LET current == Head(st.queue)
         IN  IF current \in env.targets /\ current # env.start
             THEN bfsTrace(st.prev, current)
             ELSE bfsLoop(env, bfsVisit(env, current, 1,
                                        [st EXCEPT !.queue = Tail(st.queue)]))

bfsPath(start, targets, bounds, blocked, occupied) ==
    bfsLoop([start |-> start, targets |-> targets, bounds |-> bounds,
             blocked |-> blocked, occupied |-> occupied],
            [queue |-> <<start>>, visited |-> {start}, prev |-> <<>>])

ConveyorSegment(cell, inDirection, outDirection, isBridge, edgeId) ==
    [x |-> cell[1], y |-> cell[2], inDirection |-> inDirection,
     outDirection |-> outDirection, isBridge |-> isBridge, edgeId |-> edgeId]

(* commitPath: the loop body for path[index], index counted from 1; the    *)
(* last cell of the path is not visited                                   *)
RECURSIVE commitFrom(_, _, _, _)
commitFrom(path, edgeId, index, acc) ==
    IF ~(index < Len(path)) THEN acc
    ELSE LET curr == path[index]
             next == path[index + 1]
             axis == IF isHorizontal(curr, next) THEN "h" ELSE "v"
             has == curr \in DOMAIN acc.occupied
             differs == has /\ acc.occupied[curr] # axis
             occupied == IF ~has THEN (curr :> axis) @@ acc.occupied
                         ELSE IF differs THEN [acc.occupied EXCEPT ![curr] = "hv"]
                         ELSE acc.occupied
             segment == ConveyorSegment(curr,
                            IF index = 1 THEN direction(curr, next)
                                         ELSE direction(path[index - 1], curr),
                            direction(curr, next), differs, edgeId)
         IN  commitFrom(path, edgeId, index + 1,
                        [conveyors |-> Append(acc.conveyors, segment),
                         occupied |-> occupied])

commitPath(path, edgeId, conveyors, occupied) ==
    commitFrom(path, edgeId, 1, [conveyors |-> conveyors, occupied |-> occupied])

(* new Map(placements.map(p => [p.nodeId, p])).get(id); <<>> is undefined *)
placementById(placements, id) ==
    LET hits == {i \in 1..Len(placements) : placements[i].nodeId = id}
    IN  IF hits = {} THEN <<>>
        ELSE <<placements[CHOOSE i \in hits : \A j \in hits : j <= i]>>

(* routeConveyorsForSolution lines 233-245: the first output port, from    *)
(* the k-th on, whose path has at least three cells; <<>> is null          *)
RECURSIVE choosePath(_, _, _, _, _, _)
choosePath(outputs, k, inputKeys, bounds, blocked, occupied) ==
    IF k > Len(outputs) THEN <<>>
    ELSE LET start == outputs[k]
         IN  IF ~inBounds(start, bounds) \/ start \in blocked
             THEN choosePath(outputs, k + 1, inputKeys, bounds, blocked, occupied)
             ELSE LET path == bfsPath(start, inputKeys, bounds, blocked, occupied)
                  IN  IF Len(path) >= 3 THEN path
                      ELSE choosePath(outputs, k + 1, inputKeys, bounds,
                                      blocked, occupied)

(* routeConveyorsForSolution lines 221-251: the edges from the i-th on *)
RECURSIVE routeEdges(_, _, _, _, _)
routeEdges(g, solution, blocked, i, acc) ==
    IF i > Len(g.edges) THEN [ok |-> TRUE, conveyors |-> acc.conveyors]
    ELSE LET edge == g.edges[i]
             fromPlacement == placementById(solution.placements, edge.from)
             toPlacement == placementById(solution.placements, edge.to)
         IN  IF fromPlacement = <<>> \/ toPlacement = <<>>
             THEN [ok |-> FALSE, conveyors |-> <<>>]
             ELSE LET outputs == getOutputPorts(fromPlacement[1])
                      inputs == getInputPorts(toPlacement[1])
                      inputKeys == {inputs[k] : k \in 1..Len(inputs)}
                      chosenPath == choosePath(outputs, 1, inputKeys, solution.bounds,
                                               blocked, acc.occupied)
                  IN  IF chosenPath = <<>>
                      THEN [ok |-> FALSE, conveyors |-> <<>>]
                      ELSE routeEdges(g, solution, blocked, i + 1,
                                      commitPath(chosenPath, edge.id,
                                                 acc.conveyors, acc.occupied))

routeConveyorsForSolution(g, solution) ==
    routeEdges(g, solution, buildBlockedCells(solution.placements), 1,
               [conveyors |-> <<>>, occupied |-> <<>>])

(* C# TrySolve: the machine bits of the tile model.  A model is the set of *)
(* <<cell, nodeId>> whose MachineId bit is true; IsMachine holds where     *)
(* some bit is set (lines 254 and 395), every other tile is empty.         *)

Cells(b) == (0..(b.width - 1)) \X (0..(b.height - 1))

(* lines 358-360: the anchor positions of a node *)
AnchorPositions(node, b) ==
    (0..(b.width - NodeLength(node))) \X (0..(b.height - NodeWidth(node)))

(* lines 364-370: the tiles of the footprint anchored at pos *)
Footprint(node, pos) ==
    (pos[1]..(pos[1] + NodeLength(node) - 1)) \X (pos[2]..(pos[2] + NodeWidth(node) - 1))

(* line 372: the And of the footprint's bits *)
PositionHolds(M, node, pos) ==
    \A c \in Footprint(node, pos) : <<c, node.id>> \in M

(* lines 256-262: at most one machine id per tile *)
AtMostOneMachineId(g, b, M) ==
    \A c \in Cells(b) : \A i, j \in 1..Len(g.nodes) :
        i < j => ~(<<c, g.nodes[i].id>> \in M /\ <<c, g.nodes[j].id>> \in M)

(* lines 376-388: exactly one anchor position, for a node that has any *)
ExactlyOnePosition(g, b, M) ==
    \A i \in 1..Len(g.nodes) :
        LET positions == AnchorPositions(g.nodes[i], b)
        IN  positions # {} =>
                Cardinality({pos \in positions : PositionHolds(M, g.nodes[i], pos)}) = 1

(* lines 402-438: tiles of different machines share no edge *)
NoMachineAdjacency(g, b, M) ==
    \A m1 \in M, m2 \in M :
        m1[2] # m2[2] =>
            ~(\E i \in 1..Len(STEP) :
                 m2[1] = <<m1[1][1] + STEP[i].dx, m1[1][2] + STEP[i].dy>>)

TileConstraints(g, b, M) ==
    /\ AtMostOneMachineId(g, b, M)
    /\ ExactlyOnePosition(g, b, M)
    /\ NoMachineAdjacency(g, b, M)

(* bound: machine bits set outside the node's footprint in one model *)
MaxStray == 1

(* the bits of one anchor position per node that has any *)
AnchoredBits(g, b) ==
    LET fitting == {i \in 1..Len(g.nodes) : AnchorPositions(g.nodes[i], b) # {}}
        choices == {f \in [fitting -> (0..b.width) \X (0..b.height)] :
                       \A i \in fitting : f[i] \in AnchorPositions(g.nodes[i], b)}
    IN  {UNION {Footprint(g.nodes[i], f[i]) \X {g.nodes[i].id} : i \in fitting} :
            f \in choices}

(* the sets of at most k elements of X *)
RECURSIVE SmallSubsets(_, _)
SmallSubsets(X, k) ==
    IF k = 0 THEN {{}}
    ELSE LET smaller == SmallSubsets(X, k - 1)
         IN  smaller \cup {S \cup {e} : S \in smaller, e \in X}

(* the satisfying models solver.Check() can return, up to MaxStray stray   *)
(* bits: bits only falsify constraints, so the anchors are filtered first  *)
TileModels(g, b) ==
    LET ids == {g.nodes[i].id : i \in 1..Len(g.nodes)}
        anchored == {M \in AnchoredBits(g, b) : TileConstraints(g, b, M)}
        strays(M) == SmallSubsets((Cells(b) \X ids) \ M, MaxStray)
    IN  UNION {{M \cup S : S \in {T \in strays(M) : TileConstraints(g, b, M \cup T)}} :
                  M \in anchored}

(* lines 499-520: the first tile of each machine in scan order (x outer,   *)
(* y inner) becomes its placement, in the order the tiles are met          *)
extractMachinePlacements(g, b, M) ==
    LET tilesOf(id) == {m[1] : m \in {n \in M : n[2] = id}}
        first(id) == CHOOSE c \in tilesOf(id) :
                        \A d \in tilesOf(id) :
                            c[1] < d[1] \/ (c[1] = d[1] /\ c[2] <= d[2])
        found == SelectSeq(g.nodes, LAMBDA n : tilesOf(n.id) # {})
        placed == [i \in 1..Len(found) |->
                      PlacedBuilding(found[i], first(found[i].id)[1], first(found[i].id)[2])]
    IN  SortSeq(placed, LAMBDA p, q : p.x < q.x \/ (p.x = q.x /\ p.y < q.y))

(* Requests followed in detail *)

ParallelEdgesGraph ==
    [nodes |-> <<Node("a", "crusher"), Node("b", "crusher")>>,
     edges |-> <<Edge("e1", "a", "b", 1), Edge("e2", "a", "b", 1)>>]

LayoutGraphs == {SingleGrinderGraph, TwoCrusherGraph, ParallelEdgesGraph}

(* rectangles of the schedule that are followed in detail *)
LayoutBounds ==
    {[width |-> 3, height |-> 3], [width |-> 6, height |-> 7],
     [width |-> 8, height |-> 4]}

InitLayout ==
    /\ impl \in {"cs", "ts"}
    /\ graph \in LayoutGraphs
    /\ config \in {c \in SessionConfigs : c.maxIterations = 1}
    /\ solveLimit = 1
    /\ nextId = 1
    /\ currentSolveId = NoId
    /\ cancelledSolveId = NoId
    /\ running = FALSE
    /\ solves = [s \in SolveIds |-> IdleSolve]
    /\ stream = <<>>
    /\ cancelAt = [s \in SolveIds |-> NotCancelled]
    /\ \E b \in LayoutBounds : layout = [NoLayout EXCEPT !.pc = "built", !.bounds = b]

controllerVars ==
    <<impl, graph, config, solveLimit, nextId, currentSolveId,
      cancelledSolveId, running, solves, stream, cancelAt>>

(* optimizer.ts lines 64-78: solver.check() on the placement constraints   *)
(* and extractSatSolution                                                  *)
TsCheck ==
    /\ impl = "ts"
    /\ layout.pc = "built"
    /\ IF PlacementModels(graph, layout.bounds) = {}
       THEN layout' = [layout EXCEPT !.pc = "done", !.status = "unsat"]
       ELSE \E m \in PlacementModels(graph, layout.bounds) :
               layout' = [layout EXCEPT !.pc = "placed", !.status = "sat",
                                        !.placements = extractPlacements(graph, m)]
    /\ UNCHANGED controllerVars

(* optimizer.ts lines 79-98: routeConveyorsForSolution; a failure is       *)
(* reported as an unsat attempt, a success completes the sat solution      *)
TsRoute ==
    /\ impl = "ts"
    /\ layout.pc = "placed"
    /\ LET routed == routeConveyorsForSolution(graph, layout)
       IN  layout' = IF routed.ok
                     THEN [layout EXCEPT !.pc = "done", !.conveyors = routed.conveyors]
                     ELSE [layout EXCEPT !.pc = "done", !.status = "unsat",
                                         !.placements = <<>>]
    /\ UNCHANGED controllerVars

(* Z3Solver.cs TrySolve lines 485-604: solver.Check() on the tile model    *)
(* and the extraction of the placements; the models followed hold no belt  *)
CsTrySolve ==
    /\ impl = "cs"
    /\ layout.pc = "built"
    /\ IF TileModels(graph, layout.bounds) = {}
       THEN layout' = [layout EXCEPT !.pc = "done", !.status = "unsat"]
       ELSE \E M \in TileModels(graph, layout.bounds) :
               layout' = [layout EXCEPT !.pc = "done", !.status = "sat",
                              !.model = M,
                              !.placements = extractMachinePlacements(graph, layout.bounds, M)]
    /\ UNCHANGED controllerVars

NextLayout ==
    \/ TsCheck
    \/ TsRoute
    \/ CsTrySolve

SpecLayout == InitLayout /\ [][NextLayout]_vars

(* the attempt ended with a sat solution *)
LayoutSat == layout.pc = "done" /\ layout.status = "sat"

----------------------------------------------------------------------------
(* estimateInitialBounds on its own: every graph of up to MaxNodes         *)
(* machines, any building type each                                        *)

MaxNodes == 3

NodeNames == <<"a", "b", "c", "d", "e", "f">>

EstimateGraphs ==
    UNION {{[nodes |-> [i \in 1..n |-> Node(NodeNames[i], types[i])], edges |-> <<>>] :
               types \in [1..n -> BuildingTypes]} : n \in 0..MaxNodes}

InitEstimate ==
    /\ impl = "ts"
    /\ graph \in EstimateGraphs
    /\ config \in {c \in SessionConfigs : c.maxIterations = 1}
    /\ solveLimit = 1
    /\ nextId = 1
    /\ currentSolveId = NoId
    /\ cancelledSolveId = NoId
    /\ running = FALSE
    /\ solves = [s \in SolveIds |-> IdleSolve]
    /\ stream = <<>>
    /\ cancelAt = [s \in SolveIds |-> NotCancelled]
    /\ layout = [NoLayout EXCEPT !.pc = "request"]

(* a call of estimateInitialBounds(graph) *)
Estimate ==
    /\ layout.pc = "request"
    /\ layout' = [layout EXCEPT !.pc = "estimated",
                                !.bounds = estimateInitialBounds(graph)]
    /\ UNCHANGED controllerVars

SpecEstimate == InitEstimate /\ [][Estimate]_vars

----------------------------------------------------------------------------
(* The client hook useSolver (ws-bridge.ts) *)

(* the hook's state right after solve() started the solve `id` *)
UseSolverState(id) ==
    [currentSolveId |-> id, running |-> TRUE, progress |-> <<>>,
     result |-> <<>>, error |-> <<>>]

(* ws.onmessage for a PROGRESS, RESULT or ERROR message *)
onmessage(client, message) ==
    IF message.solveId # NoId /\ message.solveId # client.currentSolveId
    THEN client
    ELSE CASE message.kind = "attempt" ->
                [client EXCEPT !.progress = Append(@, message.data)]
           [] message.kind = "solution" ->
                [client EXCEPT !.running = FALSE, !.result = <<message.data>>]
           [] message.kind = "error" ->
                [client EXCEPT !.running = FALSE, !.error = <<message.kind>>]

----------------------------------------------------------------------------
(* One attempt of the TS controller in detail, on more requests *)

(* the first node of the graph is the destination of the edge *)
ReversedEdgeGraph ==
    [nodes |-> <<Node("a", "crusher"), Node("b", "crusher")>>,
     edges |-> <<Edge("e1", "b", "a", 1)>>]

RouteGraphs ==
    {SingleGrinderGraph, TwoCrusherGraph, ParallelEdgesGraph, ReversedEdgeGraph}

RouteBounds == LayoutBounds \cup {[width |-> 7, height |-> 7]}

InitRoute ==
    /\ impl = "ts"
    /\ graph \in RouteGraphs
    /\ config \in {c \in SessionConfigs : c.maxIterations = 1}
    /\ solveLimit = 1
    /\ nextId = 1
    /\ currentSolveId = NoId
    /\ cancelledSolveId = NoId
    /\ running = FALSE
    /\ solves = [s \in SolveIds |-> IdleSolve]
    /\ stream = <<>>
    /\ cancelAt = [s \in SolveIds |-> NotCancelled]
    /\ \E b \in RouteBounds : layout = [NoLayout EXCEPT !.pc = "built", !.bounds = b]

NextRoute ==
    \/ TsCheck
    \/ TsRoute

SpecRoute == InitRoute /\ [][NextRoute]_vars

----------------------------------------------------------------------------
(* Z3Solver.cs: the tile encoding with the belt variables, on rectangles   *)
(* small enough to enumerate every satisfying model                        *)

(* CreateTileVars lines 169-182: the keys of InDirection and OutDirection  *)
(* in the order the dictionaries enumerate them                            *)
Directions == <<"up", "right", "down", "left">>

DirectionSet == {Directions[i] : i \in 1..Len(Directions)}

OppositeDirection(dir) ==
    CASE dir = "up" -> "down"
      [] dir = "down" -> "up"
      [] dir = "left" -> "right"
      [] dir = "right" -> "left"

(* the neighbour of cell c in direction dir, by DirectionVector *)
DirectionVector(c, dir) ==
    CASE dir = "up" -> <<c[1], c[2] - 1>>
      [] dir = "down" -> <<c[1], c[2] + 1>>
      [] dir = "left" -> <<c[1] - 1, c[2]>>
      [] dir = "right" -> <<c[1] + 1, c[2]>>

(* every assignment of the boolean variables of one tile; MachineId,       *)
(* InDirection and OutDirection are the sets of keys whose variable is true *)
CreateTileVars(nodeIds) ==
    [IsEmpty : BOOLEAN, IsMachine : BOOLEAN, IsConveyor : BOOLEAN,
     IsBridge : BOOLEAN, MachineId : SUBSET nodeIds,
     InDirection : SUBSET DirectionSet, OutDirection : SUBSET DirectionSet]

(* lines 241-249: at least one type and no two types *)
ExactlyOneType(t) ==
    /\ t.IsEmpty \/ t.IsMachine \/ t.IsConveyor \/ t.IsBridge
    /\ ~(t.IsEmpty /\ t.IsMachine)
    /\ ~(t.IsEmpty /\ t.IsConveyor)
    /\ ~(t.IsEmpty /\ t.IsBridge)
    /\ ~(t.IsMachine /\ t.IsConveyor)
    /\ ~(t.IsMachine /\ t.IsBridge)
    /\ ~(t.IsConveyor /\ t.IsBridge)

(* lines 251-264 and 391-398: a machine tile has an id when the graph has  *)
(* nodes, at most one id, and a tile with an id is a machine tile          *)
MachineIdConstraints(t, nodeIds) ==
    /\ nodeIds # {} => (t.IsMachine => t.MachineId # {})
    /\ Cardinality(t.MachineId) <= 1
    /\ t.MachineId # {} => t.IsMachine

(* lines 266-276: empty tiles and machine tiles have no direction bit *)
NoDirections(t) ==
    (t.IsEmpty \/ t.IsMachine) => (t.InDirection = {} /\ t.OutDirection = {})

(* lines 285-312: a conveyor has one input, one output, and they differ *)
ConveyorDirections(t) ==
    t.IsConveyor =>
        /\ t.InDirection # {}
        /\ t.OutDirection # {}
        /\ Cardinality(t.InDirection) <= 1
        /\ Cardinality(t.OutDirection) <= 1
        /\ \A dir \in DirectionSet :
              ~(dir \in t.InDirection /\ dir \in t.OutDirection)

(* lines 314-345: a bridge has a vertical and a horizontal flow, and an    *)
(* input on one side comes with the output on the opposite side            *)
BridgeDirections(t) ==
    LET isVerticalFlow ==
            /\ "up" \in t.InDirection \/ "down" \in t.InDirection
            /\ "up" \in t.OutDirection \/ "down" \in t.OutDirection
        isHorizontalFlow ==
            /\ "left" \in t.InDirection \/ "right" \in t.InDirection
            /\ "left" \in t.OutDirection \/ "right" \in t.OutDirection
    IN  /\ t.IsBridge => (isVerticalFlow /\ isHorizontalFlow)
        /\ (t.IsBridge /\ "up" \in t.InDirection) => "down" \in t.OutDirection
        /\ (t.IsBridge /\ "down" \in t.InDirection) => "up" \in t.OutDirection
        /\ (t.IsBridge /\ "left" \in t.InDirection) => "right" \in t.OutDirection
        /\ (t.IsBridge /\ "right" \in t.InDirection) => "left" \in t.OutDirection

(* the assignments of one tile that satisfy the constraints on that tile *)
TileStates(nodeIds) ==
    {t \in CreateTileVars(nodeIds) :
        /\ ExactlyOneType(t)
        /\ MachineIdConstraints(t, nodeIds)
        /\ NoDirections(t)
        /\ ConveyorDirections(t)
        /\ BridgeDirections(t)}

(* lines 440-478, Constraint 4: for a neighbour inside the grid, an output *)
(* of a conveyor or bridge meets a conveyor or bridge with the input on    *)
(* the opposite side; nothing is added for a neighbour outside the grid    *)
BeltAdjacency(b, T) ==
    \A c \in Cells(b) : \A dir \in DirectionSet :
        LET n == DirectionVector(c, dir)
        IN  inBounds(n, b) =>
                /\ (T[c].IsConveyor /\ dir \in T[c].OutDirection) =>
                      /\ T[n].IsConveyor \/ T[n].IsBridge
                      /\ OppositeDirection(dir) \in T[n].InDirection
                /\ (T[c].IsBridge /\ dir \in T[c].OutDirection) =>
                      /\ T[n].IsConveyor \/ T[n].IsBridge
                      /\ OppositeDirection(dir) \in T[n].InDirection

(* the MachineId bits of a grid of tiles, as pairs <<cell, nodeId>> *)
MachineBits(b, T) == {m \in Cells(b) \X UNION {T[c].MachineId : c \in Cells(b)} :
                         m[2] \in T[m[1]].MachineId}

(* the models solver.Check() can return: every grid of tiles that          *)
(* satisfies Constraints 1 to 4 (Constraint 5 is a TODO, lines 480-483)    *)
GridModels(g, b) ==
    LET nodeIds == {g.nodes[i].id : i \in 1..Len(g.nodes)}
    IN  {T \in [Cells(b) -> TileStates(nodeIds)] :
            /\ ExactlyOnePosition(g, b, MachineBits(b, T))
            /\ NoMachineAdjacency(g, b, MachineBits(b, T))
            /\ BeltAdjacency(b, T)}

(* lines 522-594 for one tile: a conveyor reports its first input and      *)
(* first output in dictionary order; a bridge reports inDirs[0] and        *)
(* outDirs[0] when it has at least two of each                             *)
extractSegments(c, t) ==
    LET inDirs == SelectSeq(Directions, LAMBDA dir : dir \in t.InDirection)
        outDirs == SelectSeq(Directions, LAMBDA dir : dir \in t.OutDirection)
        conveyor == IF t.IsConveyor /\ Len(inDirs) > 0 /\ Len(outDirs) > 0
                    THEN <<ConveyorSegment(c, inDirs[1], outDirs[1], FALSE, <<>>)>>
                    ELSE <<>>
        bridge == IF t.IsBridge /\ Len(inDirs) >= 2 /\ Len(outDirs) >= 2
                  THEN <<ConveyorSegment(c, inDirs[1], outDirs[1], TRUE, <<>>)>>
                  ELSE <<>>
    IN  conveyor \o bridge

(* lines 494-497: the tiles are scanned with x outer and y inner; k counts *)
(* the tiles already scanned                                               *)
RECURSIVE extractConveyors(_, _, _)
extractConveyors(b, T, k) ==
    IF k >= b.width * b.height THEN <<>>
    ELSE LET c == <<k \div b.height, k % b.height>>
         IN  extractSegments(c, T[c]) \o extractConveyors(b, T, k + 1)

(* the rectangles of the tile encoding that are followed tile by tile *)
TileBounds ==
    {[width |-> 1, height |-> 1], [width |-> 2, height |-> 1],
     [width |-> 1, height |-> 2]}

TileGraphs == {EmptyGraph, SingleGrinderGraph}

InitTiles ==
    /\ impl = "cs"
    /\ graph \in TileGraphs
    /\ config \in {c \in SessionConfigs : c.maxIterations = 1}
    /\ solveLimit = 1
    /\ nextId = 1
    /\ currentSolveId = NoId
    /\ cancelledSolveId = NoId
    /\ running = FALSE
    /\ solves = [s \in SolveIds |-> IdleSolve]
    /\ stream = <<>>
    /\ cancelAt = [s \in SolveIds |-> NotCancelled]
    /\ \E b \in TileBounds : layout = [NoLayout EXCEPT !.pc = "built", !.bounds = b]

(* Z3Solver.cs TrySolve lines 485-604: solver.Check() on the full tile     *)
(* model and the extraction of placements and conveyor segments            *)
CsTrySolveTiles ==
    /\ impl = "cs"
    /\ layout.pc = "built"
    /\ IF GridModels(graph, layout.bounds) = {}
       THEN layout' = [layout EXCEPT !.pc = "done", !.status = "unsat"]
       ELSE \E T \in GridModels(graph, layout.bounds) :
               layout' = [layout EXCEPT !.pc = "done", !.status = "sat",
                              !.tiles = T,
                              !.model = MachineBits(layout.bounds, T),
                              !.placements = extractMachinePlacements(graph,
                                  layout.bounds, MachineBits(layout.bounds, T)),
                              !.conveyors = extractConveyors(layout.bounds, T, 0)]
    /\ UNCHANGED controllerVars

SpecTiles == InitTiles /\ [][CsTrySolveTiles]_vars

----------------------------------------------------------------------------
(* The stream of one solve *)

ItemsOf(s) == SelectSeq(stream, LAMBDA m : m.solveId = s)
AttemptItems(s) == SelectSeq(ItemsOf(s), LAMBDA m : m.kind = "attempt")
SolutionItems(s) == SelectSeq(ItemsOf(s), LAMBDA m : m.kind = "solution")
Data(items) == [i \in 1..Len(items) |-> items[i].data]

(* the solve ran to completion without an internal error *)
Completed(s) == solves[s].pc = "done"

(* no newer SOLVE has replaced solve s *)
NotSuperseded(s) == impl = "cs" \/ currentSolveId = s

(* a cancel for solve s was received before its terminal item *)
CancelReceived(s) == cancelAt[s] # NotCancelled

SameBounds(attempt, b) == attempt.width = b.width /\ attempt.height = b.height

----------------------------------------------------------------------------
(* C1: every solve that runs to completion, without an internal error and *)
(* without being superseded by a newer SOLVE, has exactly one terminal    *)
(* solution item in its stream; the solution item is the last item of the *)
(* solve and no attempt item follows it, on every path.                   *)
C1_ExactlyOneTerminalLast ==
    \A s \in SolveIds :
        LET items == ItemsOf(s)
        IN  /\ Len(SolutionItems(s)) <= 1
            /\ \A i \in 1..Len(items) :
                   items[i].kind = "solution" => i = Len(items)
            /\ (Completed(s) /\ NotSuperseded(s)) => Len(SolutionItems(s)) = 1
            /\ (impl = "cs" /\ solves[s].pc = "yieldSolution")
                   => Len(SolutionItems(s)) = 1

(* a cancelled TS solve and an exhausted C# solve have both delivered     *)
(* attempts and then their solution                                       *)
C1_Witness ==
    \E s \in SolveIds :
        /\ Completed(s) /\ NotSuperseded(s)
        /\ Len(AttemptItems(s)) >= 2
        /\ solves[s].solution.status = "unknown"
        /\ (impl = "ts" => CancelReceived(s))

(* C2: the attempt items of one solve carry the iterations 1, 2, ..., n   *)
(* in this order, without gap or repeat, n is at most maxIterations, and  *)
(* the solution item comes after the attempt with iteration n.            *)
C2_IterationsContiguous ==
    \A s \in SolveIds :
        LET items == ItemsOf(s)
            atts == AttemptItems(s)
        IN  /\ \A i \in 1..Len(atts) : atts[i].data.iteration = i
            /\ \A i \in 1..Len(solves[s].attempts) :
                   solves[s].attempts[i].iteration = i
            /\ Len(atts) <= Max(0, config.maxIterations)
            /\ Len(solves[s].attempts) <= Max(0, config.maxIterations)
            /\ \A i \in 1..Len(items) : \A j \in 1..Len(items) :
                   (items[i].kind = "solution" /\ items[j].kind = "attempt") => j < i

C2_Witness ==
    \E s \in SolveIds :
        /\ Len(AttemptItems(s)) = config.maxIterations
        /\ Len(AttemptItems(s)) >= 2
        /\ Len(SolutionItems(s)) = 1

(* C3: a cancel received before the terminal item of the running solve    *)
(* makes its terminal solution unknown, with no placement and no segment. *)
C3_CancelYieldsUnknown ==
    \A s \in SolveIds :
        (Completed(s) /\ CancelReceived(s)) =>
            /\ solves[s].solution.status = "unknown"
            /\ solves[s].solution.placements = <<>>
            /\ solves[s].solution.conveyors = <<>>

(* C4: once the cancel of the running solve has been received, no check   *)
(* is started and no attempt is added: a cancel received after n attempts *)
(* ends in a solution with exactly those n attempts.                      *)
C4_NoAttemptAfterCancel ==
    \A s \in SolveIds :
        CancelReceived(s) =>
            /\ Len(solves[s].attempts) = cancelAt[s]
            /\ Len(AttemptItems(s)) <= cancelAt[s]
            /\ Completed(s) => Len(solves[s].solution.attempts) = cancelAt[s]

(* C5: at most one solver check is in flight in a session.                *)
C5_SingleFlight ==
    Cardinality({s \in SolveIds : solves[s].pc = "check"}) <= 1

(* C6: when the iterations are exhausted the solution is unsat and its    *)
(* bounds are the rectangle of the last attempt that was checked.         *)
C6_ExhaustedBoundsLastChecked ==
    \A s \in SolveIds :
        LET sol == solves[s].solution
        IN  (sol.status = "unsat" /\ Len(sol.attempts) > 0) =>
                SameBounds(sol.attempts[Len(sol.attempts)], sol.bounds)

(* C7: the attempts embedded in the solution item are, in order and in    *)
(* full, the attempt items emitted before it in the same solve.           *)
C7_AttemptsAreEmittedHistory ==
    \A s \in SolveIds :
        \A i \in 1..Len(SolutionItems(s)) :
            SolutionItems(s)[i].data.attempts = Data(AttemptItems(s))

(* C8 as stated: no attempt item with status sat is ever emitted.         *)
C8_NoSatAttempt ==
    \A i \in 1..Len(stream) :
        stream[i].kind = "attempt" => stream[i].data.status \in {"unsat", "unknown"}

(* C8 amended: a check that ends sat produces an attempt item with status *)
(* sat directly before the sat solution item, with the solution's bounds; *)
(* no attempt item with status sat appears anywhere else.                 *)
C8_SatAttemptBeforeSatSolution ==
    \A s \in SolveIds :
        LET items == ItemsOf(s)
        IN  \A i \in 1..Len(items) :
              /\ (items[i].kind = "attempt" /\ items[i].data.status = "sat") =>
                    \/ i = Len(items) /\ solves[s].pc = "yieldAttempt"
                    \/ /\ i + 1 = Len(items)
                       /\ items[i + 1].kind = "solution"
                       /\ items[i + 1].data.status = "sat"
              /\ (items[i].kind = "solution" /\ items[i].data.status = "sat") =>
                    /\ i > 1
                    /\ items[i - 1].kind = "attempt"
                    /\ items[i - 1].data.status = "sat"
                    /\ SameBounds(items[i - 1].data, items[i].data.bounds)

C8_Witness ==
    \E s \in SolveIds :
        /\ Len(SolutionItems(s)) = 1
        /\ solves[s].solution.status = "sat"
        /\ Len(AttemptItems(s)) >= 2

(* C9: a check that returns unknown at iteration k on (W,H) yields the    *)
(* attempt {k, W, H, unknown}, then the solution with status unknown,     *)
(* bounds (W,H) and no placement or segment, and no further check.        *)
C9_UnknownTerminates ==
    \A s \in SolveIds :
        LET atts == solves[s].attempts
            items == ItemsOf(s)
            sol == solves[s].solution
        IN  /\ \A i \in 1..Len(atts) :
                 atts[i].status = "unknown" =>
                    /\ i = Len(atts)
                    /\ atts[i].iteration = solves[s].iteration
                    /\ SameBounds(atts[i], solves[s].bounds)
                    /\ solves[s].pc \in {"yieldAttempt", "yieldSolution", "done"}
                    /\ solves[s].pc # "yieldAttempt" =>
                          /\ sol.status = "unknown"
                          /\ SameBounds(atts[i], sol.bounds)
                          /\ sol.placements = <<>> /\ sol.conveyors = <<>>
                          /\ sol.attempts = atts
                          /\ NotSuperseded(s) =>
                                /\ Len(items) >= 2
                                /\ items[Len(items)] = Item("solution", s, sol)
                                /\ items[Len(items) - 1] = Item("attempt", s, atts[i])
            /\ \A i \in 1..Len(items) :
                 (items[i].kind = "attempt" /\ items[i].data.status = "unknown") =>
                    \/ i = Len(items) /\ solves[s].pc = "yieldAttempt"
                    \/ i + 1 = Len(items) /\ items[i + 1].kind = "solution"

C9_Witness ==
    \E s \in SolveIds :
        /\ Completed(s)
        /\ Len(solves[s].attempts) >= 2
        /\ solves[s].attempts[Len(solves[s].attempts)].status = "unknown"
        /\ solves[s].solution.status = "unknown"

(* C10: for attempts i < j of one solve, width or height of attempt i is  *)
(* strictly smaller than that of attempt j and neither dimension          *)
(* decreases, for every fixedDimensionMode and every expansionStep,       *)
(* zero and negative ones included.                                       *)
C10_BoundsMonotone ==
    \A s \in SolveIds :
        LET atts == solves[s].attempts
        IN  \A i \in 1..Len(atts) : \A j \in 1..Len(atts) :
              i < j =>
                /\ atts[i].width < atts[j].width \/ atts[i].height < atts[j].height
                /\ atts[i].width <= atts[j].width
                /\ atts[i].height <= atts[j].height

C10_Witness ==
    \E s \in SolveIds :
        /\ config.expansionStep <= 0
        /\ Len(solves[s].attempts) >= 3

----------------------------------------------------------------------------
(* C11: after a non-sat attempt of iteration k on (W,H) that does not end *)
(* the solve, the next attempt is on (W, H+step) in mode width, on        *)
(* (W+step, H) in mode height, and in mode none on (W+step, H) when k is  *)
(* even and on (W, H+step) when k is odd, step being the configured        *)
(* expansionStep (1 when the configured value is below 1); so in mode     *)
(* width every attempt and the terminal bounds keep the initial width,    *)
(* and in mode height the initial height.                                 *)
C11_ExpansionSchedule ==
    \A s \in SolveIds :
        LET atts == solves[s].attempts
            step == IF config.expansionStep >= 1 THEN config.expansionStep ELSE 1
            mode == config.fixedDimensionMode
            first == resolveInitialBounds(graph, config)
            final == solves[s].solution
        IN  /\ \A i \in 1..(Len(atts) - 1) :
                  LET a == atts[i]
                      n == atts[i + 1]
                      growW == n.width = a.width + step /\ n.height = a.height
                      growH == n.width = a.width /\ n.height = a.height + step
                  IN  /\ a.status # "sat"
                      /\ mode = "width" => growH
                      /\ mode = "height" => growW
                      /\ mode = "none" /\ a.iteration % 2 = 0 => growW
                      /\ mode = "none" /\ a.iteration % 2 = 1 => growH
            /\ mode = "width" =>
                  /\ \A i \in 1..Len(atts) : atts[i].width = first.width
                  /\ final.status # "none" => final.bounds.width = first.width
            /\ mode = "height" =>
                  /\ \A i \in 1..Len(atts) : atts[i].height = first.height
                  /\ final.status # "none" => final.bounds.height = first.height

(* a solve in mode none with step 2 that expanded after an odd and after  *)
(* an even iteration                                                      *)
C11_Witness ==
    \E s \in SolveIds :
        /\ config.fixedDimensionMode = "none"
        /\ config.expansionStep = 2
        /\ Len(solves[s].attempts) >= 3
        /\ solves[s].attempts[3].width = solves[s].attempts[1].width + 2
        /\ solves[s].attempts[3].height = solves[s].attempts[1].height + 2

----------------------------------------------------------------------------
(* C12: when neither initialWidth nor initialHeight is supplied the first *)
(* attempt is on (s, s), s = max(L, S, ceil(sqrt(A))), A the sum of the   *)
(* nodes' footprint areas only, L the largest long side, S the largest    *)
(* short side; a supplied initialWidth or initialHeight replaces only its *)
(* own axis and leaves the other at s.  (Stated for graphs with at least  *)
(* one node.)                                                             *)
C12_InitialBounds ==
    \A s \in SolveIds :
        Len(graph.nodes) >= 1 /\ Len(solves[s].attempts) >= 1 =>
            LET A == TotalNodeArea(graph.nodes, 1)
                L == MaxLength(graph.nodes, 1)
                S == MaxWidth(graph.nodes, 1)
                side == Max(Max(L, S), CeilSqrt(A))
                first == solves[s].attempts[1]
            IN  /\ first.width = Coalesce(config.initialWidth, side)
                /\ first.height = Coalesce(config.initialHeight, side)

----------------------------------------------------------------------------
(* C13: a solve whose input is invalid (an edge naming a node that is not *)
(* in the graph, expansionStep <= 0, or a non-positive initial dimension) *)
(* is rejected before any solver check is run, and no attempt item and no *)
(* solution item is emitted for it.                                       *)
C13_InvalidInputRejected ==
    LET ids == {graph.nodes[i].id : i \in 1..Len(graph.nodes)}
        dangling == \E i \in 1..Len(graph.edges) :
                        graph.edges[i].from \notin ids \/ graph.edges[i].to \notin ids
        nonPositive == \/ Coalesce(config.initialWidth, 1) <= 0
                       \/ Coalesce(config.initialHeight, 1) <= 0
        invalid == dangling \/ config.expansionStep <= 0 \/ nonPositive
    IN  invalid =>
            \A s \in SolveIds :
                /\ solves[s].pc \notin {"check", "yieldAttempt"}
                /\ Len(AttemptItems(s)) = 0
                /\ Len(SolutionItems(s)) = 0

----------------------------------------------------------------------------
(* Properties of the solution of one attempt *)

(* the cells of the rectangle [x, x+w) x [y, y+h) a placement reports *)
PlacementCells(p) == (p.x..(p.x + p.width - 1)) \X (p.y..(p.y + p.height - 1))

Placements == {layout.placements[i] : i \in 1..Len(layout.placements)}

(* C14: in every sat solution the rectangles [x, x+w) x [y, y+h) of any   *)
(* two distinct placements share no grid cell.                            *)
C14_NoOverlap ==
    LayoutSat =>
        \A i, j \in 1..Len(layout.placements) :
            i # j => PlacementCells(layout.placements[i])
                         \cap PlacementCells(layout.placements[j]) = {}

(* two cells share a grid edge *)
EdgeAdjacent(c, d) ==
    \/ c[1] = d[1] /\ (c[2] = d[2] + 1 \/ d[2] = c[2] + 1)
    \/ c[2] = d[2] /\ (c[1] = d[1] + 1 \/ d[1] = c[1] + 1)

(* C15: in every sat solution no cell of one placement shares a grid edge *)
(* with a cell of a different placement.                                  *)
C15_NoAdjacency ==
    LayoutSat =>
        \A i, j \in 1..Len(layout.placements) :
            i # j => \A c \in PlacementCells(layout.placements[i]),
                        d \in PlacementCells(layout.placements[j]) :
                        ~EdgeAdjacent(c, d)

(* C16: in every sat solution every placement satisfies 0 <= x, 0 <= y,   *)
(* x + w <= bounds.width and y + h <= bounds.height.                      *)
C16_PlacementsInBounds ==
    LayoutSat =>
        \A i \in 1..Len(layout.placements) :
            LET p == layout.placements[i]
            IN  /\ 0 <= p.x
                /\ 0 <= p.y
                /\ p.x + p.width <= layout.bounds.width
                /\ p.y + p.height <= layout.bounds.height

(* C17: a solution is sat only if it holds exactly one placement for      *)
(* every node of the graph; an attempt on a rectangle in which some       *)
(* node's footprint cannot fit (long side > width or short side > height) *)
(* is reported unsat.                                                     *)
C17_OnePlacementPerNode ==
    /\ LayoutSat =>
          \A n \in 1..Len(graph.nodes) :
              Cardinality({i \in 1..Len(layout.placements) :
                              layout.placements[i].nodeId = graph.nodes[n].id}) = 1
    /\ layout.pc = "done"
          /\ (\E n \in 1..Len(graph.nodes) :
                 \/ NodeLength(graph.nodes[n]) > layout.bounds.width
                 \/ NodeWidth(graph.nodes[n]) > layout.bounds.height)
          => layout.status = "unsat"

Segments == {layout.conveyors[i] : i \in 1..Len(layout.conveyors)}

(* the cells reported by some segment *)
SegmentCells == {<<s.x, s.y>> : s \in Segments}

(* the cell a segment's outDirection points at *)
OutCell(s) ==
    CASE s.outDirection = "up" -> <<s.x, s.y - 1>>
      [] s.outDirection = "right" -> <<s.x + 1, s.y>>
      [] s.outDirection = "down" -> <<s.x, s.y + 1>>
      [] s.outDirection = "left" -> <<s.x - 1, s.y>>

(* the covered cells reached from the cells R by following outDirections *)
RECURSIVE ChainReach(_)
ChainReach(R) ==
    LET more == {OutCell(s) : s \in {t \in Segments : <<t.x, t.y>> \in R}}
                    \cap SegmentCells
    IN  IF more \subseteq R THEN R ELSE ChainReach(R \cup more)

(* the row directly below / directly above the footprint of a placement *)
OutputFace(p) == (p.x..(p.x + p.width - 1)) \X {p.y + p.height}
InputFace(p) == (p.x..(p.x + p.width - 1)) \X {p.y - 1}

(* C18: in every sat solution, for every material edge e the segments     *)
(* contain a chain of cells that starts on the output face of e's source  *)
(* (the row directly below its footprint), ends on the input face of e's  *)
(* destination (the row directly above its footprint), has every cell     *)
(* covered by a segment, and each segment's outDirection points at the    *)
(* next cell of the chain.                                                *)
C18_EdgeHasChain ==
    LayoutSat =>
        \A k \in 1..Len(graph.edges) :
            \E p \in Placements, q \in Placements :
                /\ p.nodeId = graph.edges[k].from
                /\ q.nodeId = graph.edges[k].to
                /\ ChainReach(OutputFace(p) \cap SegmentCells) \cap InputFace(q) # {}

(* the axis a segment carries its edge on *)
Axis(s) == IF s.outDirection \in {"left", "right"} THEN "h" ELSE "v"

(* C19: in every sat solution no cell carries two edges on the same axis: *)
(* a cell traversed by two different edges carries them on perpendicular  *)
(* axes and every segment reported at that cell has isBridge = true,      *)
(* while a cell traversed by a single edge is reported by exactly one     *)
(* segment, with isBridge = false.                                        *)
C19_SharedCellsAreBridges ==
    LayoutSat =>
        \A c \in SegmentCells :
            LET at == {i \in 1..Len(layout.conveyors) :
                          <<layout.conveyors[i].x, layout.conveyors[i].y>> = c}
                edgesAt == {layout.conveyors[i].edgeId : i \in at}
            IN  IF Cardinality(edgesAt) >= 2
                THEN /\ \A i, j \in at :
                           layout.conveyors[i].edgeId # layout.conveyors[j].edgeId
                               => Axis(layout.conveyors[i]) # Axis(layout.conveyors[j])
                     /\ \A i \in at : layout.conveyors[i].isBridge
                ELSE /\ Cardinality(at) = 1
                     /\ \A i \in at : ~layout.conveyors[i].isBridge

(* placements of the rectangle that meet the placement constraints, keep  *)
(* different machines apart and whose edges routeConveyorsForSolution can *)
(* all route                                                              *)
FeasibleLayouts(g, b) ==
    {m \in PlacementModels(g, b) :
        LET placements == extractPlacements(g, m)
        IN  /\ \A i, j \in 1..Len(placements) :
                  i # j => \A c \in PlacementCells(placements[i]),
                              d \in PlacementCells(placements[j]) : ~EdgeAdjacent(c, d)
            /\ routeConveyorsForSolution(g, [placements |-> placements,
                                             bounds |-> b]).ok}

(* C20: an attempt on (W,H) is reported unsat only if no layout meeting   *)
(* the placement, adjacency and routing requirements exists in W x H (a   *)
(* feasible rectangle is never skipped because the one placement the      *)
(* solver chose could not be routed).                                     *)
C20_UnsatOnlyIfInfeasible ==
    layout.pc = "done" /\ layout.status = "unsat" =>
        FeasibleLayouts(graph, layout.bounds) = {}

----------------------------------------------------------------------------
(* C25: estimateInitialBounds returns, for every non-empty graph, a       *)
(* square (width = height) with positive side whose area width * height   *)
(* is at least the total footprint area of the graph's machines.          *)
C25_EstimateCoversArea ==
    layout.pc = "estimated" /\ Len(graph.nodes) >= 1 =>
        /\ layout.bounds.width = layout.bounds.height
        /\ layout.bounds.width > 0
        /\ layout.bounds.width * layout.bounds.height >= TotalNodeArea(graph.nodes, 1)

(* an estimate for a graph whose area is not a perfect square, so that    *)
(* the rounding up matters                                                *)
C25_Witness ==
    /\ layout.pc = "estimated"
    /\ Len(graph.nodes) >= 2
    /\ layout.bounds.width * layout.bounds.height > TotalNodeArea(graph.nodes, 1)
    /\ (layout.bounds.width - 1) * (layout.bounds.width - 1) < TotalNodeArea(graph.nodes, 1)

----------------------------------------------------------------------------
(* C28: once the session has accepted a SOLVE with id B while the solve   *)
(* A was still running, no PROGRESS, RESULT or ERROR message carrying     *)
(* solveId A is sent afterwards, for every interleaving of A's pending    *)
(* solver check with B's handling; and the client hook leaves its         *)
(* progress, result and error state unchanged on any message whose        *)
(* solveId differs from its current solve id.                             *)
C28_SupersededIsSilent ==
    /\ [][\A a \in SolveIds :
             (impl = "ts" /\ nextId > a + 1) => ItemsOf(a)' = ItemsOf(a)]_vars
    /\ [](\A i \in 1..Len(stream) : \A id \in SolveIds :
             stream[i].solveId # id =>
                 onmessage(UseSolverState(id), stream[i]) = UseSolverState(id))

(* solve 1 was superseded by solve 2 while its check was pending: one of  *)
(* its attempts was reported before, the attempt and the solution that    *)
(* came after were not sent                                               *)
C28_Witness ==
    /\ impl = "ts"
    /\ currentSolveId = 2
    /\ solves[1].pc = "done"
    /\ Len(AttemptItems(1)) >= 1
    /\ Len(solves[1].attempts) > Len(AttemptItems(1))
    /\ Len(SolutionItems(1)) = 0

----------------------------------------------------------------------------
----------------------------------------------------------------------------
(* C30: every segment returned by routeConveyorsForSolution with ok =     *)
(* true lies inside the solution bounds (0 <= x < width, 0 <= y < height) *)
(* and on no cell covered by a placement's footprint, for any number of   *)
(* edges routed in sequence.                                              *)
C30_SegmentsOnFreeCells ==
    LayoutSat =>
        \A s \in Segments :
            /\ 0 <= s.x /\ s.x < layout.bounds.width
            /\ 0 <= s.y /\ s.y < layout.bounds.height
            /\ \A p \in Placements : <<s.x, s.y>> \notin PlacementCells(p)

(* a routed solution with the segments of two edges, one of them turning  *)
(* around a machine                                                       *)
C30_Witness ==
    /\ LayoutSat
    /\ {s.edgeId : s \in Segments} = {"e1", "e2"}
    /\ \E s \in Segments : s.inDirection # s.outDirection

----------------------------------------------------------------------------
(* the cells of free reached from the cells R through cells of free *)
RECURSIVE FreeReach(_, _)
FreeReach(R, free) ==
    LET next == {c \in free : c \in R \/ \E d \in R : EdgeAdjacent(c, d)}
    IN  IF next = R THEN R ELSE FreeReach(next, free)

(* an in-bounds unblocked cell below the source of the edge is connected  *)
(* through in-bounds unblocked cells to a cell above its destination      *)
EdgeConnected(edge, placements, b) ==
    LET placed == {placements[i] : i \in 1..Len(placements)}
        free == {c \in Cells(b) : \A p \in placed : c \notin PlacementCells(p)}
    IN  \E p \in placed, q \in placed :
            /\ p.nodeId = edge.from
            /\ q.nodeId = edge.to
            /\ \E s \in OutputFace(p) \cap free :
                   FreeReach({s}, free) \cap InputFace(q) # {}

(* C24: routeConveyorsForSolution, given placements for both endpoints of *)
(* every edge where an in-bounds unblocked cell below the source is       *)
(* connected through in-bounds unblocked cells to a cell above the        *)
(* destination, returns ok = true with, for every edge, at least two      *)
(* segments tagged with that edge's id; if an edge has an endpoint        *)
(* without a placement or no admissible path, it returns ok = false, and  *)
(* whenever it returns ok = false the conveyor list is empty.             *)
C24_RouteResult ==
    layout.pc = "placed" =>
        LET routed == routeConveyorsForSolution(graph, layout)
            connected == \A k \in 1..Len(graph.edges) :
                             EdgeConnected(graph.edges[k], layout.placements,
                                           layout.bounds)
        IN  /\ connected =>
                  /\ routed.ok
                  /\ \A k \in 1..Len(graph.edges) :
                        Cardinality({i \in 1..Len(routed.conveyors) :
                            routed.conveyors[i].edgeId = graph.edges[k].id}) >= 2
            /\ ~connected => ~routed.ok
            /\ ~routed.ok => routed.conveyors = <<>>

(* C26: every emitted segment with isBridge = false has inDirection       *)
(* different from outDirection, including the first segment of a routed   *)
(* path and the segments on straight runs.                                *)
C26_ConveyorTurnsOrPasses ==
    LayoutSat =>
        \A s \in Segments : ~s.isBridge => s.inDirection # s.outDirection

----------------------------------------------------------------------------
(* the conveyor and bridge cells of the model the tile encoding returned *)
BeltCells ==
    {c \in Cells(layout.bounds) :
        layout.tiles[c].IsConveyor \/ layout.tiles[c].IsBridge}

BridgeCells == {c \in Cells(layout.bounds) : layout.tiles[c].IsBridge}

(* C21: in every layout accepted by the tile encoding, for each conveyor  *)
(* or bridge cell c and each direction d: if Out[d](c) is set, the        *)
(* neighbour of c in direction d lies inside the grid and is a conveyor   *)
(* or bridge whose In[opposite(d)] is set; if In[d](c) is set, the        *)
(* neighbour of c on that side lies inside the grid and is a conveyor or  *)
(* bridge whose Out bit toward c is set.                                  *)
C21_BeltAdjacencyBothWays ==
    LayoutSat =>
        \A c \in BeltCells : \A d \in DirectionSet :
            LET n == DirectionVector(c, d)
            IN  /\ d \in layout.tiles[c].OutDirection =>
                      /\ n \in BeltCells
                      /\ OppositeDirection(d) \in layout.tiles[n].InDirection
                /\ d \in layout.tiles[c].InDirection =>
                      /\ n \in BeltCells
                      /\ OppositeDirection(d) \in layout.tiles[n].OutDirection

(* C22: in every layout accepted by the tile encoding, a bridge cell has  *)
(* exactly two In bits and exactly two Out bits: one straight vertical    *)
(* flow (In[up] with Out[down], or In[down] with Out[up], not both) and   *)
(* one straight horizontal flow (In[left] with Out[right], or In[right]   *)
(* with Out[left], not both), and no other direction bit.                 *)
C22_BridgeHasTwoStraightFlows ==
    LayoutSat =>
        \A c \in BridgeCells :
            \E v \in {<<"up", "down">>, <<"down", "up">>},
               h \in {<<"left", "right">>, <<"right", "left">>} :
                /\ layout.tiles[c].InDirection = {v[1], h[1]}
                /\ layout.tiles[c].OutDirection = {v[2], h[2]}

(* C23: in every layout accepted by the tile encoding, for each node n    *)
(* that fits the grid, the cells whose M[n] bit is set are exactly one    *)
(* L x S rectangle inside the grid, and the extracted placement (x, y) is *)
(* the top-left corner of that rectangle.                                 *)
C23_MachineBitsAreTheFootprint ==
    (impl = "cs" /\ LayoutSat) =>
        \A i \in 1..Len(graph.nodes) :
            LET node == graph.nodes[i]
                cells == {m[1] : m \in {k \in layout.model : k[2] = node.id}}
            IN  AnchorPositions(node, layout.bounds) # {} =>
                    \E pos \in AnchorPositions(node, layout.bounds) :
                        /\ cells = Footprint(node, pos)
                        /\ \E p \in Placements :
                              p.nodeId = node.id /\ p.x = pos[1] /\ p.y = pos[2]

(* C27: for every bridge cell of a satisfying model that holds one of the *)
(* four valid configurations (up-to-down or down-to-up with left-to-right *)
(* or right-to-left), the extracted segment has isBridge = true and       *)
(* reports the vertical flow: inDirection is up or down and outDirection  *)
(* is the opposite vertical direction.                                    *)
C27_BridgeReportsVerticalFlow ==
    LayoutSat =>
        \A c \in BridgeCells :
            (/\ Cardinality(layout.tiles[c].InDirection) = 2
             /\ Cardinality(layout.tiles[c].OutDirection) = 2) =>
                \E s \in Segments :
                    /\ <<s.x, s.y>> = c
                    /\ s.isBridge
                    /\ <<s.inDirection, s.outDirection>> \in
                           {<<"up", "down">>, <<"down", "up">>}

====
